---- MODULE Spec2Model ----
(***************************************************************************)
(* Hazard scoring and route selection of bridge-api's routes/routing.js.   *)
(* Two versions of the module are in the repository:                       *)
(*   "routing"  src/bridge-api/routes/routing.js (lines 72-291)           *)
(*   "part_002" src/unnamed/part_002 (lines 24-243)                       *)
(* The variable impl says which of them is deployed. Of a third, earlier   *)
(* version (routing.js lines 1-70, "earlier") only the loading of the data *)
(* sets is modelled: its handler scores no route.                          *)
(*                                                                         *)
(* Units. Coordinates are the fixed-point integers of the encoded polyline *)
(* format (degrees * 1e5); the code divides them by 1e5. Feet are kept in  *)
(* tenths of a foot (13.6 ft = 136). An absent (undefined / null) value is *)
(* the empty sequence <<>>, a present one the one-element sequence <<v>>.  *)
(* Strings of encoded polylines are sequences of character codes.          *)
(*                                                                         *)
(* Rows of the data files are JSON values. A row has record = "object",    *)
(* "null" (the row is null) or "scalar" (a number or string in the place   *)
(* of the object: every property read gives undefined). A bridge row says  *)
(* in json what each of its three numeric fields holds: "number", "null",  *)
(* "absent" or "text" (a string that is no number); the field itself holds *)
(* the number, and 0 otherwise. A zone row says in polygonIs whether its   *)
(* polygon is an "array", "absent" or "other" (not an array). A vertex has *)
(* kind = "point", "null", or "bare" (an object without coordinates).      *)
(***************************************************************************)
EXTENDS Integers, Sequences, FiniteSets, TLC

VARIABLES impl, apiKey, bridges, noTruckZones, residentialZones,
          pc, body, routes, evaluated, res,
          files,   \* the data files on disk
          ties,    \* how the double arithmetic settles an exact tie (LeftOfEdge)
          arg,     \* the argument a helper function was called with
          ret      \* what it returned

vars == <<impl, apiKey, bridges, noTruckZones, residentialZones,
          pc, body, routes, evaluated, res, files, ties, arg, ret>>

\* what handling a request leaves alone
data == <<impl, apiKey, bridges, noTruckZones, residentialZones,
          files, ties, arg, ret>>

\* Largest number of alternatives the directions provider returns.
MaxRoutes == 3

----------------------------------------------------------------------------
(* Generic helpers                                                         *)

Abs(x) == IF x < 0 THEN -x ELSE x

\* least r in lo..hi with r * r >= n
RECURSIVE CeilSqrtFrom(_, _, _)
CeilSqrtFrom(n, lo, hi) ==
  IF lo >= hi THEN lo
  ELSE LET mid == (lo + hi) \div 2
       IN  IF mid * mid >= n THEN CeilSqrtFrom(n, lo, mid)
           ELSE CeilSqrtFrom(n, mid + 1, hi)

\* x ?? d
Coalesce(x, d) == IF x = <<>> THEN d ELSE x

\* Number(x) || d : undefined gives NaN, NaN and 0 are falsy
NumberOr(x, d) == IF x = <<>> \/ x[1] = 0 THEN d ELSE x[1]

\* Number(row.field) of a data row: <<n>>, or <<>> for NaN. Number(null) is
\* 0; Number(undefined) and Number of a string that is no number are NaN.
NumberOf(row, kind, value) ==
  IF row.record # "object" THEN <<>>
  ELSE IF kind = "number" THEN <<value>>
  ELSE IF kind = "null" THEN <<0>>
  ELSE <<>>

----------------------------------------------------------------------------
(* Geometry primitives                                                     *)

\* Distance in metres, rounded up to a whole metre. One fixed-point unit
\* (1e-5 degree) is taken as one metre and the sphere as flat, which is the
\* haversine formula for nearby points near the origin; the code compares
\* the distance only with <= against a whole number of metres, for which
\* rounding up changes nothing. The root lies between the larger of the two
\* differences and their sum.
haversineMeters(a, b) ==
  LET dLat == Abs(b.lat - a.lat)
      dLng == Abs(b.lng - a.lng)
  IN  CeilSqrtFrom(dLat * dLat + dLng * dLng,
                   IF dLat >= dLng THEN dLat ELSE dLng, dLat + dLng)

\* x < (xj - xi) * (y - yi) / (yj - yi) + xi, without the division
\* (only evaluated when yi # yj, as in the code's short-circuit &&).
\* The code computes the right-hand side in doubles. Coordinates are decimal
\* fractions, so the rounded quotient decides the comparison as the exact
\* one does unless the point lies exactly on the line through the edge:
\* then the rounding of the product, the quotient and the sum decides, and
\* it may differ between an edge taken upwards (yi < yj) and downwards.
LeftOfEdge(x, y, xi, yi, xj, yj) ==
  IF (x - xi) * (yj - yi) = (xj - xi) * (y - yi)
  THEN IF yj - yi > 0 THEN ties.up ELSE ties.down
  ELSE IF yj - yi > 0
       THEN (x - xi) * (yj - yi) < (xj - xi) * (y - yi)
       ELSE (x - xi) * (yj - yi) > (xj - xi) * (y - yi)

RECURSIVE pipLoop(_, _, _, _, _)
pipLoop(point, polygon, i, j, inside) ==
  IF i > Len(polygon) THEN inside
  ELSE LET x  == point.lat
           y  == point.lng
           xi == polygon[i].lat
           yi == polygon[i].lng
           xj == polygon[j].lat
           yj == polygon[j].lng
           \* a comparison with the NaN of a vertex without coordinates is
           \* false; reading a null vertex throws, see polygonThrows
           intersect == /\ polygon[i].kind = "point"
                        /\ polygon[j].kind = "point"
                        /\ (yi > y) # (yj > y)
                        /\ LeftOfEdge(x, y, xi, yi, xj, yj)
       IN  pipLoop(point, polygon, i + 1, i, IF intersect THEN ~inside ELSE inside)

\* polygon[i].lat of a null vertex is a TypeError
polygonThrows(polygon) == \E i \in 1..Len(polygon) : polygon[i].kind = "null"

\* inside as soon as one edge is crossed, instead of toggled at each crossing
pointInPolygonAnyCrossing(point, polygon) ==
  \E i \in 1..Len(polygon) :
    LET j == IF i = 1 THEN Len(polygon) ELSE i - 1
    IN  /\ (polygon[i].lng > point.lng) # (polygon[j].lng > point.lng)
        /\ LeftOfEdge(point.lat, point.lng, polygon[i].lat, polygon[i].lng,
                      polygon[j].lat, polygon[j].lng)

\* Ray casting, even-odd rule
pointInPolygon(point, polygon) ==
  pipLoop(point, polygon, 1, Len(polygon), FALSE)

\* One do-while loop of decodePolyline: reads 5-bit chunks from position
\* index (1-based) on. charCodeAt past the end is NaN: it adds no bits and
\* ends the loop. Returns the accumulated result and the next index.
RECURSIVE readChunks(_, _, _, _)
readChunks(str, index, shift, result) ==
  IF index > Len(str) THEN [result |-> result, index |-> index + 1]
  ELSE LET b  == str[index] - 63
           r2 == result + (b % 32) * (2 ^ shift)
       IN  IF b >= 32 THEN readChunks(str, index + 1, shift + 5, r2)
           ELSE [result |-> r2, index |-> index + 1]

\* result >> 1 whatever the sign bit
unzigzagUnsigned(result) == result \div 2

\* (result & 1) ? ~(result >> 1) : (result >> 1)
unzigzag(result) ==
  IF result % 2 = 1 THEN -(result \div 2) - 1 ELSE result \div 2

RECURSIVE decodeLoop(_, _, _, _, _)
decodeLoop(str, index, lat, lng, out) ==
  IF index > Len(str) THEN out
  ELSE LET a    == readChunks(str, index, 0, 0)
           lat2 == lat + unzigzag(a.result)
           b    == readChunks(str, a.index, 0, 0)
           lng2 == lng + unzigzag(b.result)
       IN  decodeLoop(str, b.index, lat2, lng2,
                      Append(out, [lat |-> lat2, lng |-> lng2]))

\* Decode a Google encoded polyline
decodePolyline(str) == decodeLoop(str, 1, 0, 0, <<>>)

RECURSIVE denseLoop(_, _, _)
denseLoop(steps, k, pts) ==
  IF k > Len(steps) THEN pts
  ELSE LET enc == steps[k]
           seg == decodePolyline(enc)
       IN  IF enc = <<>> THEN denseLoop(steps, k + 1, pts)
           ELSE IF Len(pts) > 0 /\ Len(seg) > 0
                   /\ pts[Len(pts)].lat = seg[1].lat
                   /\ pts[Len(pts)].lng = seg[1].lng
                THEN denseLoop(steps, k + 1, pts \o Tail(seg))
                ELSE denseLoop(steps, k + 1, pts \o seg)

\* the steps' polylines concatenated with every point kept
RECURSIVE denseKeepSeams(_, _, _)
denseKeepSeams(steps, k, pts) ==
  IF k > Len(steps) THEN pts
  ELSE denseKeepSeams(steps, k + 1, pts \o decodePolyline(steps[k]))

densePathKeepSeams(googleRoute) == denseKeepSeams(googleRoute.steps, 1, <<>>)

\* Dense path of the first leg: the steps' polylines concatenated.
\* A route without a first leg or without steps has steps = <<>>.
densePathFromRoute(googleRoute) ==
  IF Len(googleRoute.steps) = 0 THEN <<>>
  ELSE denseLoop(googleRoute.steps, 1, <<>>)

----------------------------------------------------------------------------
(* Route scorer                                                            *)

safetyMarginFt == 3
minCutoffFt == 130
SAFE_EXTRA_FT == 5

\* Math.max(minCutoffFt, truckHeightFt + safetyMarginFt)      (routing)
requiredClearance(opts) ==
  IF minCutoffFt >= opts.truckHeightFt + safetyMarginFt
  THEN minCutoffFt
  ELSE opts.truckHeightFt + safetyMarginFt

\* truckHeightFt + SAFE_EXTRA_FT                              (part_002)
thresholdFt(opts) == opts.truckHeightFt + SAFE_EXTRA_FT

\* the clearance below which this version flags a bridge
clearanceLimit(opts) ==
  IF impl = "routing" THEN requiredClearance(opts) ELSE thresholdFt(opts)

\* The conditions that let a bridge record through to the distance test.
\* routing:  Number.isFinite(clr), clr < requiredClearance, finite lat, lng
\* part_002: clr >= 0, clr < thresholdFt, lat and lng truthy (not 0)
bridgeConsidered(b, opts) ==
  LET clr == NumberOf(b, b.json.clearance_ft, b.clearance_ft)
      lat == NumberOf(b, b.json.latitude, b.latitude)
      lng == NumberOf(b, b.json.longitude, b.longitude)
  IN  IF impl = "routing"
      THEN /\ clr # <<>>
           /\ clr[1] < requiredClearance(opts)
           /\ lat # <<>>
           /\ lng # <<>>
      ELSE /\ clr # <<>>
           /\ clr[1] >= 0
           /\ clr[1] < thresholdFt(opts)
           /\ lat # <<>> /\ lat[1] # 0
           /\ lng # <<>> /\ lng[1] # 0

\* b.id || b.structure_id || `${lat},${lng}` (the data sets carry no structure_id)
bridgeId(b) ==
  IF b.id # "" THEN b.id
  ELSE ToString(b.latitude) \o "," \o ToString(b.longitude)

bridgeEntry(b) ==
  [id |-> bridgeId(b), latitude |-> b.latitude, longitude |-> b.longitude,
   clearance_ft |-> b.clearance_ft]

\* for (const p of points) { if (haversineMeters(bp, p) <= buffer) { push; break } }
RECURSIVE bridgeScan(_, _, _, _, _)
bridgeScan(b, points, buffer, k, acc) ==
  IF k > Len(points) THEN acc
  ELSE IF haversineMeters([lat |-> b.latitude, lng |-> b.longitude], points[k]) <= buffer
       THEN Append(acc, bridgeEntry(b))
       ELSE bridgeScan(b, points, buffer, k + 1, acc)

\* the same loop without the break
RECURSIVE bridgeScanNoBreak(_, _, _, _, _)
bridgeScanNoBreak(b, points, buffer, k, acc) ==
  IF k > Len(points) THEN acc
  ELSE IF haversineMeters([lat |-> b.latitude, lng |-> b.longitude], points[k]) <= buffer
       THEN bridgeScanNoBreak(b, points, buffer, k + 1, Append(acc, bridgeEntry(b)))
       ELSE bridgeScanNoBreak(b, points, buffer, k + 1, acc)

flagBridgeNoBreak(b, points, buffer, acc) == bridgeScanNoBreak(b, points, buffer, 1, acc)

\* flags the bridge when no point is farther away than the buffer
flagBridgeEvery(b, points, buffer, acc) ==
  IF \A k \in 1..Len(points) :
       haversineMeters([lat |-> b.latitude, lng |-> b.longitude], points[k]) <= buffer
  THEN Append(acc, bridgeEntry(b))
  ELSE acc

\* the distance test turned round: flags when a point is at least buffer away
RECURSIVE bridgeScanBeyond(_, _, _, _, _)
bridgeScanBeyond(b, points, buffer, k, acc) ==
  IF k > Len(points) THEN acc
  ELSE IF haversineMeters([lat |-> b.latitude, lng |-> b.longitude], points[k]) >= buffer
       THEN Append(acc, bridgeEntry(b))
       ELSE bridgeScanBeyond(b, points, buffer, k + 1, acc)

flagBridgeBeyond(b, points, buffer, acc) == bridgeScanBeyond(b, points, buffer, 1, acc)

\* the inner loop over the route's points for one bridge
flagBridge(b, points, buffer, acc) == bridgeScan(b, points, buffer, 1, acc)

RECURSIVE bridgeLoop(_, _, _, _)
bridgeLoop(points, opts, n, acc) ==
  IF n > Len(bridges) THEN acc
  ELSE IF bridgeConsidered(bridges[n], opts)
       THEN bridgeLoop(points, opts, n + 1,
                       flagBridge(bridges[n], points, opts.bridgeBufferMeters, acc))
       ELSE bridgeLoop(points, opts, n + 1, acc)

\* 1) Bridges: the lowBridges bucket
lowBridgesOf(points, opts) == bridgeLoop(points, opts, 1, <<>>)

\* routing:  { id: z.id, name: z.name }
\* part_002: { id: z.id || z.name, name: z.name || key }
zoneEntry(z, key) ==
  IF impl = "routing" THEN [id |-> z.id, name |-> z.name]
  ELSE [id |-> IF z.id # "" THEN z.id ELSE z.name,
        name |-> IF z.name # "" THEN z.name ELSE key]

RECURSIVE zoneScan(_, _, _, _, _)
zoneScan(z, key, points, k, acc) ==
  IF k > Len(points) THEN acc
  ELSE IF pointInPolygon(points[k], z.polygon)
       THEN Append(acc, zoneEntry(z, key))
       ELSE zoneScan(z, key, points, k + 1, acc)

RECURSIVE zoneLoop(_, _, _, _, _)
zoneLoop(zones, key, points, n, acc) ==
  IF n > Len(zones) THEN acc
  ELSE IF \/ zones[n].record # "object"
          \/ zones[n].polygonIs # "array"
          \/ Len(zones[n].polygon) = 0
       THEN zoneLoop(zones, key, points, n + 1, acc)
       ELSE zoneLoop(zones, key, points, n + 1, zoneScan(zones[n], key, points, 1, acc))

\* 2) Zones: the bucket of one zone set
checkZones(zones, key, points) == zoneLoop(zones, key, points, 1, <<>>)

weightedScoreSkewed(hazards) ==
  Len(hazards.lowBridges) * 10
  + Len(hazards.noTruckZones) * 5
  + Len(hazards.residentialZones) * 5

weightedScore(hazards) ==
  Len(hazards.lowBridges) * 10
  + Len(hazards.noTruckZones) * 5
  + Len(hazards.residentialZones) * 3

hazardsOf(points, opts) ==
  [lowBridges       |-> lowBridgesOf(points, opts),
   noTruckZones     |-> checkZones(noTruckZones, "noTruckZones", points),
   residentialZones |-> checkZones(residentialZones, "residentialZones", points)]

\* Count hazards for a polyline (sequence of [lat, lng])
scoreRoute(points, opts) ==
  LET hazards == hazardsOf(points, opts)
  IN  [hazards |-> hazards, score |-> weightedScore(hazards)]

\* checkZones throws a TypeError: z.polygon of a null row, or
\* pointInPolygon reading a null vertex (the first point reads them all)
zonesThrow(zones, points) ==
  \E n \in 1..Len(zones) :
    \/ zones[n].record = "null"
    \/ /\ zones[n].polygonIs = "array"
       /\ polygonThrows(zones[n].polygon)
       /\ Len(points) > 0

\* scoreRoute throws instead of returning: b.clearance_ft of a null row, or
\* one of the two checkZones calls
scoreThrows(points) ==
  \/ \E n \in 1..Len(bridges) : bridges[n].record = "null"
  \/ zonesThrow(noTruckZones, points)
  \/ zonesThrow(residentialZones, points)

----------------------------------------------------------------------------
(* Data sets and provider routes the model draws from                      *)

\* data/low_clearance_bridges.json: [{id, latitude, longitude, clearance_ft}]
AllNumbers ==
  [clearance_ft |-> "number", latitude |-> "number", longitude |-> "number"]

\* a row as build-bridges writes it
Bridge(id, lat, lng, clr) ==
  [record |-> "object", id |-> id, latitude |-> lat, longitude |-> lng,
   clearance_ft |-> clr, json |-> AllNumbers]

BridgeData ==
  << Bridge("B1", 1000, 100, 110),
     Bridge("B2", 2000, 100, 125),
     Bridge("B3", 3000, 100, 130) >>

Vertex(lat, lng) == [lat |-> lat, lng |-> lng, kind |-> "point"]

Square(lat, lng) ==
  << Vertex(lat, lng), Vertex(lat, lng + 200),
     Vertex(lat + 200, lng + 200), Vertex(lat + 200, lng),
     Vertex(lat, lng) >>

\* a row as the zones build writes it
Zone(id, name, polygon) ==
  [record |-> "object", id |-> id, name |-> name, polygonIs |-> "array",
   polygon |-> polygon]

\* data/no_truck_zones.json: [{id, name, polygon: [{lat, lng}, ...]}]
NoTruckData == << Zone("nt-1", "Depot Rd", Square(4000, 0)) >>

\* data/residential_zones.json
ResidentialData == << Zone("res-1", "", Square(5000, 0)) >>

\* The files on disk when the module is loaded; an absent zone file leaves []
DataSets ==
  { [bridges |-> BridgeData, noTruckZones |-> NoTruckData,
     residentialZones |-> ResidentialData],
    [bridges |-> BridgeData, noTruckZones |-> <<>>, residentialZones |-> <<>>] }

\* A data file: not there, there with zero bytes (JSON.parse throws), or
\* there with an array of rows
Absent == [state |-> "absent", rows |-> <<>>]
Blank == [state |-> "blank", rows |-> <<>>]
Json(rows) == [state |-> "json", rows |-> rows]

\* the files that load to the data set d
FilesOf(d) ==
  [bridges |-> Json(d.bridges),
   no_truck_zones |-> IF d.noTruckZones = <<>> THEN Absent ELSE Json(d.noTruckZones),
   residential_zones |->
     IF d.residentialZones = <<>> THEN Absent ELSE Json(d.residentialZones)]

\* The outcomes of an exact tie in LeftOfEdge, for an edge taken upwards
\* and for one taken downwards
TieRoundings == [up : BOOLEAN, down : BOOLEAN]

\* the outcome of the exact comparison: x < x is false
ExactTies == [up |-> FALSE, down |-> FALSE]

\* Encoded polylines (character codes) and the points they decode to
EncClean     == <<95, 118, 74, 103, 69, 103, 69, 63>>      \* (6000,100) (6100,100)
EncNearB1    == <<111, 125, 64, 107, 72, 123, 64, 82>>     \* (1000,150) (1030,140)
EncInNoTruck == <<103, 95, 71, 103, 69>>                   \* (4100,100)
\* (2000,220) (3000,100) (4100,100) (5100,100)
EncAll       == <<95, 124, 66, 119, 76, 111, 125, 64, 110, 70, 119, 99, 65, 63,
                  111, 125, 64, 63>>
EncAllA      == <<95, 124, 66, 119, 76, 111, 125, 64, 110, 70>>
EncAllB      == <<111, 122, 68, 103, 69, 119, 99, 65, 63, 111, 125, 64, 63>>

\* One route of the provider's answer: overview_polyline.points, the
\* polyline.points of legs[0].steps, legs[0].duration_in_traffic.value and
\* legs[0].duration.value
Route(overview, steps, inTraffic, duration) ==
  [overview_polyline |-> overview, steps |-> steps,
   duration_in_traffic |-> inTraffic, duration |-> duration]

RouteCatalogue ==
  { Route(EncClean, <<EncClean>>, <<>>, <<600>>),
    Route(EncClean, <<EncClean>>, <<500>>, <<600>>),
    Route(EncNearB1, <<EncNearB1>>, <<>>, <<600>>),
    Route(EncInNoTruck, <<EncInNoTruck>>, <<>>, <<500>>),
    Route(EncAll, <<EncAllA, EncAllB>>, <<500>>, <<>>),
    Route(<<>>, <<>>, <<>>, <<>>) }

RouteLists == UNION { [1..n -> RouteCatalogue] : n \in 0..MaxRoutes }

\* Request bodies: origin/destination given or not, truck.height_ft,
\* tuning.bridgeBufferMeters
Bodies ==
  [endpoints : BOOLEAN, height_ft : {<<>>, <<120>>},
   bridgeBufferMeters : {<<>>, <<50>>}]

----------------------------------------------------------------------------
(* The safe-route handler                                                  *)

NoHazards == [lowBridges |-> <<>>, noTruckZones |-> <<>>, residentialZones |-> <<>>]

NoBody == [endpoints |-> FALSE, height_ft |-> <<>>, bridgeBufferMeters |-> <<>>]

Response(status, error, index, hazards, all) ==
  [status |-> status, error |-> error, chosenRouteIndex |-> index,
   chosenRouteHazards |-> hazards, routes |-> all]

NoResponse == Response(0, "", <<>>, NoHazards, <<>>)

defaultHeightRouting == 136
defaultHeightPart002 == 135
defaultBuffer == 120

\* Number(truck.height_ft) || 13.6 (routing), || 13.5 (part_002);
\* Number(tuning.bridgeBufferMeters) || 120
optsOf(b) ==
  [truckHeightFt |-> NumberOr(b.height_ft,
                      IF impl = "routing" THEN defaultHeightRouting
                      ELSE defaultHeightPart002),
   bridgeBufferMeters |-> NumberOr(b.bridgeBufferMeters, defaultBuffer)]

\* falls back on the other polyline when the one the version reads is missing
pointsOfEither(r) ==
  LET overview == IF r.overview_polyline # <<>>
                  THEN decodePolyline(r.overview_polyline) ELSE <<>>
      dense    == densePathFromRoute(r)
  IN  IF impl = "routing"
      THEN IF overview # <<>> THEN overview ELSE dense
      ELSE IF dense # <<>> THEN dense ELSE overview

\* The points a route is scored on: the decoded overview polyline (routing),
\* the dense path of the first leg's steps (part_002)
pointsOf(r) ==
  IF impl = "routing"
  THEN IF r.overview_polyline # <<>> THEN decodePolyline(r.overview_polyline) ELSE <<>>
  ELSE densePathFromRoute(r)

\* leg?.duration_in_traffic?.value ?? leg?.duration?.value ?? null
durationOf(r) == Coalesce(r.duration_in_traffic, Coalesce(r.duration, <<>>))

\* idx counted from 1
evaluateOneFromOne(rs, k, b) ==
  LET scored == scoreRoute(pointsOf(rs[k]), optsOf(b))
  IN  [index |-> k, encoded |-> rs[k].overview_polyline,
       duration_s |-> durationOf(rs[k]),
       hazards |-> scored.hazards, score |-> scored.score]

\* One element of routes.map((r, idx) => ...); idx counts from 0
evaluateOne(rs, k, b) ==
  LET scored == scoreRoute(pointsOf(rs[k]), optsOf(b))
  IN  [index |-> k - 1, encoded |-> rs[k].overview_polyline,
       duration_s |-> durationOf(rs[k]),
       hazards |-> scored.hazards, score |-> scored.score]

\* a hazards object shared by all routes instead of one per call
RECURSIVE evaluateShared(_, _, _, _)
evaluateShared(rs, b, k, acc) ==
  IF k > Len(rs) THEN acc
  ELSE LET one  == evaluateOne(rs, k, b)
           prev == IF k = 1 THEN NoHazards ELSE acc[k - 1].hazards
           hz   == [lowBridges |-> prev.lowBridges \o one.hazards.lowBridges,
                    noTruckZones |-> prev.noTruckZones \o one.hazards.noTruckZones,
                    residentialZones |->
                      prev.residentialZones \o one.hazards.residentialZones]
       IN  evaluateShared(rs, b, k + 1,
             Append(acc, [one EXCEPT !.hazards = hz, !.score = weightedScore(hz)]))

evaluateAllShared(rs, b) == evaluateShared(rs, b, 1, <<>>)

RECURSIVE evaluateFrom(_, _, _, _)
evaluateFrom(rs, b, k, acc) ==
  IF k > Len(rs) THEN acc
  ELSE evaluateFrom(rs, b, k + 1, Append(acc, evaluateOne(rs, k, b)))

\* const evaluated = routes.map(...)
evaluateAll(rs, b) == evaluateFrom(rs, b, 1, <<>>)

----------------------------------------------------------------------------
(* Route selector                                                          *)

\* stands for 9e15, which is beyond TLC's 32-bit integers; every
\* duration of the model is below it
MissingDuration == 2000000000

\* evaluated.find(e => e.score === 0): its position, 0 when there is none
RECURSIVE findZeroFrom(_, _)
findZeroFrom(ev, k) ==
  IF k > Len(ev) THEN 0
  ELSE IF ev[k].score = 0 THEN k ELSE findZeroFrom(ev, k + 1)

reducerStrict(a, b) == IF a.score < b.score THEN a ELSE b

\* (a, b) => (a.score <= b.score ? a : b)
reducer(a, b) == IF a.score <= b.score THEN a ELSE b

\* evaluated.reduce(reducer), no initial value
RECURSIVE reduceFrom(_, _, _)
reduceFrom(ev, k, a) ==
  IF k > Len(ev) THEN a ELSE reduceFrom(ev, k + 1, reducer(a, ev[k]))

\* routing: safe || evaluated.reduce(...); <<>> when reduce throws on []
selectRouting(ev) ==
  LET z == findZeroFrom(ev, 1)
  IN  IF z > 0 THEN <<ev[z]>>
      ELSE IF Len(ev) = 0 THEN <<>>
      ELSE <<reduceFrom(ev, 2, ev[1])>>

durationKey(e) == IF e.duration_s = <<>> THEN MissingDuration ELSE e.duration_s[1]

compareDescending(a, b) ==
  IF b.score - a.score # 0 THEN b.score - a.score
  ELSE durationKey(a) - durationKey(b)

\* (a, b) => (a.score - b.score) || ((a.duration_s ?? 9e15) - (b.duration_s ?? 9e15))
compare(a, b) ==
  IF a.score - b.score # 0 THEN a.score - b.score
  ELSE durationKey(a) - durationKey(b)

\* x goes before the first element that compares greater than it
RECURSIVE insertSorted(_, _, _)
insertSorted(s, x, k) ==
  IF k > Len(s) THEN Append(s, x)
  ELSE IF compare(s[k], x) > 0
       THEN SubSeq(s, 1, k - 1) \o <<x>> \o SubSeq(s, k, Len(s))
       ELSE insertSorted(s, x, k + 1)

\* Array.prototype.sort with a comparator: a stable sort
RECURSIVE sortFrom(_, _, _)
sortFrom(ev, k, acc) ==
  IF k > Len(ev) THEN acc ELSE sortFrom(ev, k + 1, insertSorted(acc, ev[k], 1))

\* part_002: evaluated.slice().sort(compare)[0]; <<>> when it is undefined
selectPart002(ev) ==
  LET sorted == sortFrom(ev, 1, <<>>)
  IN  IF Len(sorted) = 0 THEN <<>> ELSE <<sorted[1]>>

\* the chosen element of evaluated, <<>> when reading best.index throws
selectBest(ev) == IF impl = "routing" THEN selectRouting(ev) ELSE selectPart002(ev)

noRoutesNever(rs) == FALSE

\* if (!routes.length)
noRoutes(rs) == Len(rs) = 0

----------------------------------------------------------------------------
(* State machine                                                           *)

\* the module is loaded with the data set d and no request is in progress
Loaded(d) ==
  /\ bridges = d.bridges
  /\ noTruckZones = d.noTruckZones
  /\ residentialZones = d.residentialZones
  /\ files = FilesOf(d)
  /\ pc = "idle"
  /\ body = NoBody
  /\ routes = <<>>
  /\ evaluated = <<>>
  /\ res = NoResponse
  /\ arg = <<>>
  /\ ret = <<>>

\* No point of a catalogue route lies on the line through an edge of a
\* catalogue zone, so no tie arises and its rounding is left at ExactTies.
Init ==
  /\ impl \in {"routing", "part_002"}
  /\ apiKey \in BOOLEAN
  /\ ties = ExactTies
  /\ \E d \in DataSets : Loaded(d)

\* A request without origin/destination is answered 400
RejectRequest(b) ==
  /\ pc = "idle"
  /\ ~b.endpoints
  /\ body' = b
  /\ routes' = <<>>
  /\ evaluated' = <<>>
  /\ res' = Response(400, "origin/destination required", <<>>, NoHazards, <<>>)
  /\ pc' = "responded"
  /\ UNCHANGED data

\* No GOOGLE_MAPS_API_KEY in the environment: 500
MissingKey(b) ==
  /\ pc = "idle"
  /\ b.endpoints
  /\ ~apiKey
  /\ body' = b
  /\ routes' = <<>>
  /\ evaluated' = <<>>
  /\ res' = Response(500, "GOOGLE_MAPS_API_KEY not set on server", <<>>, NoHazards, <<>>)
  /\ pc' = "responded"
  /\ UNCHANGED data

\* The handler calls client.directions and awaits the answer
CallDirections(b) ==
  /\ pc = "idle"
  /\ b.endpoints
  /\ apiKey
  /\ body' = b
  /\ routes' = <<>>
  /\ evaluated' = <<>>
  /\ res' = NoResponse
  /\ pc' = "awaiting"
  /\ UNCHANGED data

\* The provider answers: response.data.routes || []
DirectionsResolve(rs) ==
  /\ pc = "awaiting"
  /\ routes' = rs
  /\ pc' = "fetched"
  /\ UNCHANGED <<data, body, evaluated, res>>

\* The provider call fails or times out: the catch block answers 500
DirectionsReject ==
  /\ pc = "awaiting"
  /\ res' = Response(500, "Error fetching directions", <<>>, NoHazards, <<>>)
  /\ pc' = "responded"
  /\ UNCHANGED <<data, body, routes, evaluated>>

\* if (!routes.length) return res.status(502)
ReturnNoRoutes ==
  /\ pc = "fetched"
  /\ noRoutes(routes)
  /\ res' = Response(502, "No routes returned from Google Directions", <<>>,
                     NoHazards, <<>>)
  /\ pc' = "responded"
  /\ UNCHANGED <<data, body, routes, evaluated>>

\* Evaluate every route, choose one, answer 200; a TypeError while scoring
\* or choosing is caught and answered 500
ReturnChosen ==
  /\ pc = "fetched"
  /\ ~noRoutes(routes)
  /\ IF \E k \in 1..Len(routes) : scoreThrows(pointsOf(routes[k]))
     THEN /\ evaluated' = evaluated
          /\ res' = Response(500, "Error fetching directions", <<>>, NoHazards, <<>>)
     ELSE LET ev   == evaluateAll(routes, body)
              best == selectBest(ev)
          IN  /\ evaluated' = ev
              /\ res' = IF best = <<>>
                        THEN Response(500, "Error fetching directions", <<>>,
                                      NoHazards, <<>>)
                        ELSE Response(200, "", <<best[1].index>>, best[1].hazards, ev)
  /\ pc' = "responded"
  /\ UNCHANGED <<data, body, routes>>

\* The response is sent; the handler's locals are gone
Done ==
  /\ pc = "responded"
  /\ pc' = "idle"
  /\ body' = NoBody
  /\ routes' = <<>>
  /\ evaluated' = <<>>
  /\ res' = NoResponse
  /\ UNCHANGED data

Next ==
  \/ \E b \in Bodies : RejectRequest(b)
  \/ \E b \in Bodies : MissingKey(b)
  \/ \E b \in Bodies : CallDirections(b)
  \/ \E rs \in RouteLists : DirectionsResolve(rs)
  \/ DirectionsReject
  \/ ReturnNoRoutes
  \/ ReturnChosen
  \/ Done

Spec == Init /\ [][Next]_vars

----------------------------------------------------------------------------
(* Requests against other data sets and other provider answers            *)

\* Largest number of alternatives where the data sets are varied.
MaxAltRoutes == 2

EncNearRows == <<111, 125, 64, 99, 66, 110, 125, 64, 63>>    \* (1000,50) (0,50)
\* (4100,100) (3900,100) (5100,100)
EncInZones  == <<103, 95, 71, 103, 69, 110, 75, 63, 95, 106, 65, 63>>

\* A route near the bridges, one through the zones, and routes the
\* provider sends without steps, with a step that has no polyline, and
\* without overview_polyline
AltCatalogue ==
  { Route(EncNearRows, <<EncNearRows>>, <<>>, <<600>>),
    Route(EncInZones, <<EncInZones>>, <<500>>, <<600>>),
    Route(EncNearB1, <<>>, <<>>, <<400>>),
    Route(EncInNoTruck, << <<>> >>, <<>>, <<>>),
    Route(<<>>, <<EncNearB1>>, <<>>, <<300>>) }

AltRouteLists == UNION { [1..n -> AltCatalogue] : n \in 0..MaxAltRoutes }

NextAlt ==
  \/ \E b \in Bodies : RejectRequest(b)
  \/ \E b \in Bodies : MissingKey(b)
  \/ \E b \in Bodies : CallDirections(b)
  \/ \E rs \in AltRouteLists : DirectionsResolve(rs)
  \/ DirectionsReject
  \/ ReturnNoRoutes
  \/ ReturnChosen
  \/ Done

\* Requests answered with routes that lack the polyline the version reads
SpecUndecodable == Init /\ [][NextAlt]_vars

----------------------------------------------------------------------------
(* Loading the module                                                      *)

\* require(file): <<rows>>, or <<>> when it throws (no file, no JSON in it)
requireFile(f) == IF f.state = "json" THEN <<f.rows>> ELSE <<>>

\* the earlier version requires the zone files outside any try
zoneFilesRequired == impl = "earlier"

\* The module's top level: bridges = require(...), and the zone sets either
\* required like it (earlier version) or set to [] and then required inside
\* try {} catch {}. A throw ends the load, and with it the server's start.
LoadModule ==
  /\ pc = "loading"
  /\ LET b  == requireFile(files.bridges)
         nt == requireFile(files.no_truck_zones)
         rz == requireFile(files.residential_zones)
     IN  IF b = <<>> \/ (zoneFilesRequired /\ (nt = <<>> \/ rz = <<>>))
         THEN /\ pc' = "crashed"
              /\ UNCHANGED <<bridges, noTruckZones, residentialZones>>
         ELSE /\ bridges' = b[1]
              /\ noTruckZones' = IF nt = <<>> THEN <<>> ELSE nt[1]
              /\ residentialZones' = IF rz = <<>> THEN <<>> ELSE rz[1]
              /\ pc' = IF impl = "earlier" THEN "loaded" ELSE "idle"
  /\ UNCHANGED <<impl, apiKey, files, ties, arg, ret, body, routes, evaluated, res>>

\* what can be on disk when the server starts
FileSets ==
  [bridges : {Absent, Blank, Json(BridgeData)},
   no_truck_zones : {Absent, Blank, Json(<<>>), Json(NoTruckData)},
   residential_zones : {Absent, Blank, Json(<<>>), Json(ResidentialData)}]

InitLoad ==
  /\ impl \in {"earlier", "routing", "part_002"}
  /\ apiKey \in BOOLEAN
  /\ ties = ExactTies
  /\ files \in FileSets
  /\ pc = "loading"
  /\ bridges = <<>>
  /\ noTruckZones = <<>>
  /\ residentialZones = <<>>
  /\ body = NoBody
  /\ routes = <<>>
  /\ evaluated = <<>>
  /\ res = NoResponse
  /\ arg = <<>>
  /\ ret = <<>>

NextLoad == LoadModule \/ NextAlt

\* the server from its start on
SpecLoad == InitLoad /\ [][NextLoad]_vars

----------------------------------------------------------------------------
(* Data files with malformed rows                                          *)

\* a bridge row with one field that holds no number
BridgeWith(id, lat, lng, clr, field, kind) ==
  [Bridge(id, lat, lng, clr) EXCEPT !.json[field] = kind]

\* All rows lie within 50 m of a point of EncNearRows and have a clearance
\* of 11.0 ft where they have one; a field that holds no number is 0 here.
RowBridges ==
  << Bridge("B1", 1000, 100, 110),
     BridgeWith("B-null-clr", 1000, 60, 0, "clearance_ft", "null"),
     BridgeWith("B-no-clr", 1000, 40, 0, "clearance_ft", "absent"),
     BridgeWith("B-text-clr", 1000, 30, 0, "clearance_ft", "text"),
     BridgeWith("B-null-lat", 0, 50, 110, "latitude", "null"),
     BridgeWith("B-no-lat", 0, 50, 110, "latitude", "absent"),
     BridgeWith("B-text-lng", 1000, 0, 110, "longitude", "text"),
     Bridge("B-lat0", 0, 100, 110),
     Bridge("B-lng0", 1000, 0, 110) >>

\* a row that is null, or a number or string
NotARow(record) ==
  [record |-> record, id |-> "", name |-> "", latitude |-> 0, longitude |-> 0,
   clearance_ft |-> 0,
   json |-> [clearance_ft |-> "absent", latitude |-> "absent", longitude |-> "absent"],
   polygonIs |-> "absent", polygon |-> <<>>]

\* a zone row whose polygon is no array
ZoneWithout(id, name, polygonIs) ==
  [Zone(id, name, <<>>) EXCEPT !.polygonIs = polygonIs]

\* the ring with its n-th vertex replaced by null or by {}
RingWith(ring, n, kind) == [ring EXCEPT ![n] = [lat |-> 0, lng |-> 0, kind |-> kind]]

\* (4100,100) of EncInZones is the middle of the segment of nt-2v, and
\* (3900,100) lies beside the square of nt-bare
RowZones ==
  << Zone("nt-1", "Depot Rd", Square(4000, 0)),
     Zone("nt-0v", "no vertex", <<>>),
     Zone("nt-1v", "one vertex", <<Vertex(4100, 100)>>),
     Zone("nt-2v", "two vertices", <<Vertex(4050, 50), Vertex(4150, 150)>>),
     ZoneWithout("nt-nopoly", "no polygon", "absent"),
     ZoneWithout("nt-text", "polygon is a string", "other"),
     Zone("nt-bare", "vertex without coordinates", RingWith(Square(4000, 0), 3, "bare")),
     NotARow("scalar") >>

RowDataSets ==
  { [bridges |-> RowBridges, noTruckZones |-> RowZones,
     residentialZones |-> ResidentialData],
    [bridges |-> Append(BridgeData, NotARow("scalar")), noTruckZones |-> NoTruckData,
     residentialZones |-> ResidentialData],
    [bridges |-> Append(BridgeData, NotARow("null")), noTruckZones |-> NoTruckData,
     residentialZones |-> ResidentialData],
    [bridges |-> BridgeData, noTruckZones |-> <<NotARow("null")>> \o NoTruckData,
     residentialZones |-> ResidentialData],
    [bridges |-> BridgeData, noTruckZones |-> NoTruckData,
     residentialZones |->
       << Zone("res-null", "null vertex", RingWith(Square(5000, 0), 2, "null")) >>] }

InitRows ==
  /\ impl \in {"routing", "part_002"}
  /\ apiKey \in BOOLEAN
  /\ ties \in TieRoundings
  /\ \E d \in RowDataSets : Loaded(d)

\* requests served from data files with malformed rows
SpecRows == InitRows /\ [][NextAlt]_vars

----------------------------------------------------------------------------
(* The helper functions called alone                                       *)

\* no module is loaded and no request is made
NoServer ==
  /\ impl = "part_002"
  /\ apiKey = FALSE
  /\ bridges = <<>>
  /\ noTruckZones = <<>>
  /\ residentialZones = <<>>
  /\ files = [bridges |-> Absent, no_truck_zones |-> Absent, residential_zones |-> Absent]
  /\ body = NoBody
  /\ routes = <<>>
  /\ evaluated = <<>>
  /\ res = NoResponse

\* what a call of a helper leaves alone
server == <<impl, apiKey, bridges, noTruckZones, residentialZones, files, ties,
            body, routes, evaluated, res>>

\* Largest number of steps of a leg.
MaxSteps == 3

StepAB == <<65, 65, 65, 65>>     \* (1,1) (2,2)
StepBC == <<67, 67, 65, 65>>     \* (2,2) (3,3)
StepB  == <<67, 67>>             \* (2,2)
StepDA == <<67, 69, 64, 66>>     \* (2,3) (1,1)

\* step.polyline?.points of a step; <<>> for a step without polyline
StepPolylines == {<<>>, StepAB, StepBC, StepB, StepDA}

\* googleRoute.legs[0].steps
StepLists == UNION { [1..n -> StepPolylines] : n \in 0..MaxSteps }

InitDense ==
  /\ NoServer
  /\ ties = ExactTies
  /\ pc = "call"
  /\ arg \in { Route(<<>>, steps, <<>>, <<>>) : steps \in StepLists }
  /\ ret = <<>>

CallDensePath ==
  /\ pc = "call"
  /\ ret' = densePathFromRoute(arg)
  /\ pc' = "returned"
  /\ UNCHANGED <<server, arg>>

\* densePathFromRoute called on a route
SpecDense == InitDense /\ [][CallDensePath]_vars

\* The square of the specification, [(0,0),(0,2),(2,2),(2,0)] in degrees,
\* is taken in steps of 1/UnitsPerDegree degree; the edge test compares
\* cross products, which a common scale of point and ring does not change.
UnitsPerDegree == 4

Degrees(n) == n * UnitsPerDegree

SquareRing ==
  << Vertex(0, 0), Vertex(0, Degrees(2)), Vertex(Degrees(2), Degrees(2)),
     Vertex(Degrees(2), 0) >>

\* the ring with its first vertex repeated as its last
closedRing(ring) == Append(ring, ring[1])

\* points from 1 degree before the square to 2 degrees behind it
GridPoints ==
  [lat : -Degrees(1)..Degrees(4), lng : -Degrees(1)..Degrees(4)]

InitPip ==
  /\ NoServer
  /\ ties \in TieRoundings
  /\ pc = "call"
  /\ arg \in [point : GridPoints, polygon : {SquareRing, closedRing(SquareRing)}]
  /\ ret = <<>>

CallPointInPolygon ==
  /\ pc = "call"
  /\ ret' = pointInPolygon(arg.point, arg.polygon)
  /\ pc' = "returned"
  /\ UNCHANGED <<server, arg>>

\* pointInPolygon called on a point and the square
SpecPip == InitPip /\ [][CallPointInPolygon]_vars

\* Largest length of the other strings decoded.
MaxChars == 3

\* the example of the format's documentation: "_p~iF~ps|U_ulLnnqC_mqNvxq`@"
ReferencePolyline ==
  <<95, 112, 126, 105, 70, 126, 112, 115, 124, 85, 95, 117, 108, 76, 110, 110,
    113, 67, 95, 109, 113, 78, 118, 120, 113, 96, 64>>

\* '?', '@', 'A' end a value (0, -1, 1); '_' and '`' continue it
SomeChars == {63, 64, 65, 95, 96}

\* the reference string, what is left of it cut anywhere, and short strings
EncodedStrings ==
  { SubSeq(ReferencePolyline, 1, n) : n \in 0..Len(ReferencePolyline) }
  \cup UNION { [1..n -> SomeChars] : n \in 0..MaxChars }

InitDecode ==
  /\ NoServer
  /\ ties = ExactTies
  /\ pc = "call"
  /\ arg \in EncodedStrings
  /\ ret = <<>>

CallDecodePolyline ==
  /\ pc = "call"
  /\ ret' = decodePolyline(arg)
  /\ pc' = "returned"
  /\ UNCHANGED <<server, arg>>

\* decodePolyline called on a string
SpecDecode == InitDecode /\ [][CallDecodePolyline]_vars

\* Largest number of points of a route scored alone.
MaxPoints == 2

\* near B1, 120 m from B2, inside nt-1, on an edge of nt-1, inside res-1
ScorePoints ==
  { [lat |-> 1000, lng |-> 150], [lat |-> 2000, lng |-> 220],
    [lat |-> 4100, lng |-> 100], [lat |-> 4000, lng |-> 100],
    [lat |-> 5100, lng |-> 100] }

PointLists == UNION { [1..n -> ScorePoints] : n \in 0..MaxPoints }

\* truck heights of 12.0, 12.5 and 13.6 ft, buffers of 50 and 120 m
ScoreOptions == [truckHeightFt : {120, 125, 136}, bridgeBufferMeters : {50, 120}]

InitScore ==
  /\ impl \in {"routing", "part_002"}
  /\ apiKey = FALSE
  /\ ties \in TieRoundings
  /\ \E d \in DataSets :
       /\ bridges = d.bridges
       /\ noTruckZones = d.noTruckZones
       /\ residentialZones = d.residentialZones
       /\ files = FilesOf(d)
  /\ body = NoBody
  /\ routes = <<>>
  /\ evaluated = <<>>
  /\ res = NoResponse
  /\ pc = "call"
  /\ arg \in [points : PointLists, opts : ScoreOptions]
  /\ ret = <<>>

CallScoreRoute ==
  /\ pc = "call"
  /\ ~scoreThrows(arg.points)
  /\ ret' = scoreRoute(arg.points, arg.opts)
  /\ pc' = "returned"
  /\ UNCHANGED <<server, arg>>

\* scoreRoute called on a sequence of points, the module loaded
SpecScore == InitScore /\ [][CallScoreRoute]_vars

----------------------------------------------------------------------------
(* Properties                                                              *)

Answered200 == pc = "responded" /\ res.status = 200

\* the element of the answer's routes that chosenRouteIndex names
chosen == res.routes[res.chosenRouteIndex[1] + 1]

scoresOf(all) == [k \in 1..Len(all) |-> all[k].score]

\* C1: the chosen route has the minimum score of the evaluated routes, so a
\* route with score 0 is chosen whenever there is one.
C1_ChosenHasMinimumScore ==
  Answered200 =>
    /\ res.chosenRouteIndex[1] + 1 \in 1..Len(res.routes)
    /\ \A k \in 1..Len(res.routes) : chosen.score <= res.routes[k].score

\* scores [10, 0, 5] in this order, and the score-0 route (index 1) chosen
C1_Witness ==
  /\ Answered200
  /\ scoresOf(res.routes) = <<10, 0, 5>>
  /\ res.chosenRouteIndex = <<1>>

\* C2: among the routes sharing the winning score the chosen one has the
\* shortest duration_s, a missing duration_s counting as longest.
C2_ShortestDurationAmongWinners ==
  Answered200 =>
    \A k \in 1..Len(res.routes) :
      res.routes[k].score = chosen.score =>
        durationKey(chosen) <= durationKey(res.routes[k])

\* C3: of the routes that equal the chosen one in score and in duration_s
\* (both missing included) the chosen one has the smallest index.
C3_FirstAmongFullTies ==
  Answered200 =>
    \A k \in 1..Len(res.routes) :
      (/\ res.routes[k].score = chosen.score
       /\ res.routes[k].duration_s = chosen.duration_s)
      => chosen.index <= res.routes[k].index

\* a full tie at a score above 0 between the chosen route and a later one
C3_Witness ==
  /\ Answered200
  /\ chosen.score > 0
  /\ \E k \in 1..Len(res.routes) :
       /\ res.routes[k].index > chosen.index
       /\ res.routes[k].score = chosen.score
       /\ res.routes[k].duration_s = chosen.duration_s

\* C4: score = 10 * |lowBridges| + 5 * |noTruckZones| + 3 * |residentialZones|
\* over the buckets returned, a natural number that is 0 exactly when the
\* three buckets are empty.
C4_ScoreIsWeightedCount ==
  Answered200 =>
    \A k \in 1..Len(res.routes) :
      LET e == res.routes[k]
      IN  /\ e.score = 10 * Len(e.hazards.lowBridges)
                       + 5 * Len(e.hazards.noTruckZones)
                       + 3 * Len(e.hazards.residentialZones)
          /\ e.score \in Nat
          /\ (e.score = 0) <=> (e.hazards = NoHazards)

\* a route with something in each of the three buckets
C4_Witness ==
  /\ Answered200
  /\ \E k \in 1..Len(res.routes) :
       /\ Len(res.routes[k].hazards.lowBridges) = 2
       /\ Len(res.routes[k].hazards.noTruckZones) = 1
       /\ Len(res.routes[k].hazards.residentialZones) = 1
       /\ res.routes[k].score = 28

\* some point of the sequence lies within buffer metres of the bridge
withinBuffer(b, points, buffer) ==
  \E k \in 1..Len(points) :
    haversineMeters([lat |-> b.latitude, lng |-> b.longitude], points[k]) <= buffer

\* how many entries of a bucket carry the id
countId(bucket, id) == Cardinality({i \in 1..Len(bucket) : bucket[i].id = id})

\* max(13.0 ft, truck height + safety margin), with the margin of the version
flooredClearance(opts) ==
  LET withMargin == opts.truckHeightFt
                    + (IF impl = "routing" THEN safetyMarginFt ELSE SAFE_EXTRA_FT)
  IN  IF minCutoffFt >= withMargin THEN minCutoffFt ELSE withMargin

\* C5: a bridge with clearance below 13.0 ft within the buffer of a route
\* point is in the route's lowBridges, whatever the truck height.
C5_BelowFloorAlwaysFlagged ==
  Answered200 =>
    \A k \in 1..Len(res.routes) : \A n \in 1..Len(bridges) :
      (/\ bridges[n].clearance_ft < minCutoffFt
       /\ withinBuffer(bridges[n], pointsOf(routes[k]), optsOf(body).bridgeBufferMeters))
      => countId(res.routes[k].hazards.lowBridges, bridgeId(bridges[n])) >= 1

\* C6: a bridge is in lowBridges, once, if and only if its clearance is
\* strictly below the required clearance max(13.0 ft, height + margin) and
\* some route point is at most bridgeBufferMeters away; otherwise not at all.
C6_FlaggedIffLowAndNear ==
  Answered200 =>
    \A k \in 1..Len(res.routes) : \A n \in 1..Len(bridges) :
      countId(res.routes[k].hazards.lowBridges, bridgeId(bridges[n])) =
        IF /\ bridges[n].clearance_ft < flooredClearance(optsOf(body))
           /\ withinBuffer(bridges[n], pointsOf(routes[k]),
                           optsOf(body).bridgeBufferMeters)
        THEN 1 ELSE 0

\* no id occurs twice in a bucket
distinctIds(bucket) ==
  \A i, j \in 1..Len(bucket) : bucket[i].id = bucket[j].id => i = j

\* C7: no hazard is counted twice in a route's report, and scoring the
\* route's points followed by the same points again gives the same buckets
\* and the same score.
C7_CountedOncePerRoute ==
  Answered200 =>
    \A k \in 1..Len(res.routes) :
      LET e   == res.routes[k]
          pts == pointsOf(routes[k])
      IN  /\ distinctIds(e.hazards.lowBridges)
          /\ distinctIds(e.hazards.noTruckZones)
          /\ distinctIds(e.hazards.residentialZones)
          /\ scoreRoute(pts \o pts, optsOf(body))
               = [hazards |-> e.hazards, score |-> e.score]

\* a bridge flagged once although two points of the route are within the buffer
C7_Witness ==
  /\ Answered200
  /\ \E k \in 1..Len(res.routes) : \E n \in 1..Len(bridges) :
       LET pts == pointsOf(routes[k])
           bp  == [lat |-> bridges[n].latitude, lng |-> bridges[n].longitude]
       IN  /\ countId(res.routes[k].hazards.lowBridges, bridgeId(bridges[n])) = 1
           /\ Cardinality({i \in 1..Len(pts) :
                 haversineMeters(bp, pts[i]) <= optsOf(body).bridgeBufferMeters}) >= 2

\* C8: the hazards and score of a candidate are those of scoring it alone,
\* whatever the other candidates are, and the step that scores and selects
\* changes neither the data sets nor the provider's route list.
C8_IndependentAndPure ==
  [][(pc = "fetched" /\ pc' = "responded") =>
       /\ bridges' = bridges
       /\ noTruckZones' = noTruckZones
       /\ residentialZones' = residentialZones
       /\ routes' = routes
       /\ res'.status = 200 =>
            /\ Len(res'.routes) = Len(routes)
            /\ \A k \in 1..Len(routes) :
                 LET alone == evaluateAll(<<routes[k]>>, body)[1]
                 IN  /\ res'.routes[k].hazards = alone.hazards
                     /\ res'.routes[k].score = alone.score]_vars

\* an answer whose second route has hazards of its own after a first route
\* that has others
C8_Witness ==
  /\ Answered200
  /\ Len(res.routes) >= 2
  /\ res.routes[1].score > 0
  /\ res.routes[2].score > 0
  /\ res.routes[1].hazards # res.routes[2].hazards

\* the options the handler can pass to scoreRoute
OptionSet == { optsOf(b) : b \in Bodies }

\* C9: a route without points is scored without hazards and with score 0,
\* for every data set and every option.
C9_EmptyRouteScoresZero ==
  /\ \A o \in OptionSet : scoreRoute(<<>>, o) = [hazards |-> NoHazards, score |-> 0]
  /\ Answered200 =>
       \A k \in 1..Len(res.routes) :
         pointsOf(routes[k]) = <<>> =>
           /\ res.routes[k].hazards = NoHazards
           /\ res.routes[k].score = 0

\* an answer with a route without points next to a route with hazards
C9_Witness ==
  /\ Answered200
  /\ \E k, m \in 1..Len(res.routes) :
       /\ pointsOf(routes[k]) = <<>>
       /\ res.routes[k].score = 0
       /\ res.routes[m].score > 0

\* C10: when the provider returns no routes the handler answers with the
\* failure status 502, names no chosen route and evaluates and selects
\* nothing.
C10_NoCandidatesFails ==
  [][(pc = "fetched" /\ Len(routes) = 0) =>
       /\ pc' = "responded"
       /\ res'.status = 502
       /\ res'.chosenRouteIndex = <<>>
       /\ res'.routes = <<>>
       /\ evaluated' = <<>>]_vars

\* the 502 answer
C10_Witness ==
  /\ pc = "responded"
  /\ res.status = 502
  /\ routes = <<>>
  /\ res.chosenRouteIndex = <<>>

\* C11: a 200 answer returns every evaluated route: routes has one entry
\* per candidate, in the provider's order, entry i with index i;
\* chosenRouteIndex is the index of one of them and chosenRouteHazards are
\* the hazards of routes[chosenRouteIndex].
C11_AllRoutesReturned ==
  Answered200 =>
    /\ Len(res.routes) = Len(routes)
    /\ \A k \in 1..Len(routes) :
         /\ res.routes[k].index = k - 1
         /\ res.routes[k].encoded = routes[k].overview_polyline
         /\ res.routes[k].duration_s = durationOf(routes[k])
    /\ \E k \in 1..Len(res.routes) : res.routes[k].index = res.chosenRouteIndex[1]
    /\ res.chosenRouteHazards = res.routes[res.chosenRouteIndex[1] + 1].hazards

\* three routes returned, the last one chosen, with hazards of its own
C11_Witness ==
  /\ Answered200
  /\ Len(res.routes) = 3
  /\ res.chosenRouteIndex = <<2>>
  /\ res.chosenRouteHazards.lowBridges # <<>>

\* a zone file that is absent, of zero bytes, or an empty array
emptyZoneFile(f) == f.state \in {"absent", "blank"} \/ f = Json(<<>>)

\* C12: with a zone file absent or empty the module loads all the same, the
\* zone set is empty and every route scored afterwards has an empty bucket
\* of that type, without error; with the bridges file absent the load fails
\* and no request is ever scored.
C12_ZoneFilesOptionalBridgesRequired ==
  pc # "loading" =>
    /\ files.bridges.state = "absent" =>
         /\ pc = "crashed"
         /\ evaluated = <<>>
         /\ res = NoResponse
    /\ (files.bridges.state = "json" /\ emptyZoneFile(files.no_truck_zones)) =>
         /\ pc # "crashed"
         /\ noTruckZones = <<>>
         /\ \A k \in 1..Len(evaluated) : evaluated[k].hazards.noTruckZones = <<>>
         /\ (pc = "responded" /\ Len(routes) > 0) => res.status = 200
    /\ (files.bridges.state = "json" /\ emptyZoneFile(files.residential_zones)) =>
         /\ pc # "crashed"
         /\ residentialZones = <<>>
         /\ \A k \in 1..Len(evaluated) : evaluated[k].hazards.residentialZones = <<>>
         /\ (pc = "responded" /\ Len(routes) > 0) => res.status = 200

\* the bridge row holds a number in each of its three numeric fields
finiteBridge(b) == b.record = "object" /\ b.json = AllNumbers

\* C13: a bridge row whose clearance_ft, latitude or longitude is absent,
\* null or no finite number is in no route's lowBridges, and skipping it is
\* no error; a row with three finite numbers, latitude 0 and longitude 0
\* included, is flagged when it is low and near.
C13_MalformedBridgesSkipped ==
  /\ (/\ pc = "responded" /\ Len(routes) > 0
      /\ \A n \in 1..Len(bridges) : bridges[n].record = "object"
      /\ \A k \in 1..Len(routes) :
           /\ ~zonesThrow(noTruckZones, pointsOf(routes[k]))
           /\ ~zonesThrow(residentialZones, pointsOf(routes[k])))
     => res.status = 200
  /\ Answered200 =>
       \A k \in 1..Len(res.routes) : \A n \in 1..Len(bridges) :
         countId(res.routes[k].hazards.lowBridges, bridges[n].id) =
           IF /\ finiteBridge(bridges[n])
              /\ bridges[n].clearance_ft < clearanceLimit(optsOf(body))
              /\ withinBuffer(bridges[n], pointsOf(routes[k]),
                              optsOf(body).bridgeBufferMeters)
           THEN 1 ELSE 0

\* the entries of a zone bucket that stem from the zone row z
countZone(bucket, z, key) ==
  Cardinality({i \in 1..Len(bucket) : bucket[i] = zoneEntry(z, key)})

\* a zone row with an array of fewer than 3 vertices for polygon
degenerateZone(z) ==
  z.record = "object" /\ z.polygonIs = "array" /\ Len(z.polygon) < 3

\* C14: a zone whose polygon has 0, 1 or 2 vertices is in no route's
\* noTruckZones or residentialZones bucket, whatever the route's points.
C14_DegenerateZonesSkipped ==
  Answered200 =>
    \A k \in 1..Len(res.routes) :
      /\ \A n \in 1..Len(noTruckZones) :
           degenerateZone(noTruckZones[n]) =>
             countZone(res.routes[k].hazards.noTruckZones,
                       noTruckZones[n], "noTruckZones") = 0
      /\ \A n \in 1..Len(residentialZones) :
           degenerateZone(residentialZones[n]) =>
             countZone(res.routes[k].hazards.residentialZones,
                       residentialZones[n], "residentialZones") = 0

\* a zone row with a ring of at least 3 vertices that all have coordinates
soundZone(z) ==
  /\ z.record = "object"
  /\ z.polygonIs = "array"
  /\ Len(z.polygon) >= 3
  /\ \A i \in 1..Len(z.polygon) : z.polygon[i].kind = "point"

\* the bucket holds the sound zones that contain a point of the route, once
\* each, and none of the malformed ones (degenerate ones are left to C14)
zonesFiltered(bucket, zones, key, points) ==
  \A n \in 1..Len(zones) :
    IF soundZone(zones[n])
    THEN countZone(bucket, zones[n], key) =
           IF \E p \in 1..Len(points) : pointInPolygon(points[p], zones[n].polygon)
           THEN 1 ELSE 0
    ELSE degenerateZone(zones[n]) \/ countZone(bucket, zones[n], key) = 0

\* C15: a malformed row (null or no object, polygon missing or no array, a
\* null vertex or one without coordinates, a field that is no finite
\* number) never makes scoring throw: the request is answered, the row is
\* left out, and the other rows are scored as without it.
C15_MalformedRowsFiltered ==
  (pc = "responded" /\ Len(routes) > 0) =>
    /\ res.status = 200
    /\ \A k \in 1..Len(res.routes) :
         LET pts == pointsOf(routes[k])
             hz  == res.routes[k].hazards
         IN  /\ zonesFiltered(hz.noTruckZones, noTruckZones, "noTruckZones", pts)
             /\ zonesFiltered(hz.residentialZones, residentialZones,
                              "residentialZones", pts)
             /\ \A n \in 1..Len(bridges) :
                  ~finiteBridge(bridges[n]) =>
                    countId(hz.lowBridges, bridges[n].id) = 0

\* the decoded polylines of the steps that have one, in step order
RECURSIVE segmentsFrom(_, _)
segmentsFrom(steps, k) ==
  IF k > Len(steps) THEN <<>>
  ELSE IF steps[k] = <<>> THEN segmentsFrom(steps, k + 1)
  ELSE <<decodePolyline(steps[k])>> \o segmentsFrom(steps, k + 1)

\* segment i as it is to appear: without its first point when that point
\* is the last point of segment i - 1
seamless(segs, i) ==
  IF i > 1 /\ segs[i][1] = segs[i - 1][Len(segs[i - 1])]
  THEN Tail(segs[i]) ELSE segs[i]

RECURSIVE joined(_, _)
joined(segs, i) ==
  IF i > Len(segs) THEN <<>> ELSE seamless(segs, i) \o joined(segs, i + 1)

\* C16: densePathFromRoute returns the decoded polylines of the steps in
\* step order, joined, with the first point of a segment left out exactly
\* when it equals (lat and lng) the last point of the segment before it;
\* a route without steps gives the empty sequence.
C16_DensePathJoinsSegments ==
  pc = "returned" =>
    /\ ret = joined(segmentsFrom(arg.steps, 1), 1)
    /\ arg.steps = <<>> => ret = <<>>

\* three steps: a seam with equal points, then one that differs in lng only
C16_Witness ==
  /\ pc = "returned"
  /\ arg.steps = <<StepAB, StepBC, StepDA>>
  /\ ret = << [lat |-> 1, lng |-> 1], [lat |-> 2, lng |-> 2], [lat |-> 3, lng |-> 3],
              [lat |-> 2, lng |-> 3], [lat |-> 1, lng |-> 1] >>

strictlyInsideSquare(p) ==
  /\ 0 < p.lat /\ p.lat < Degrees(2)
  /\ 0 < p.lng /\ p.lng < Degrees(2)

outsideBoundingBox(p) ==
  \/ p.lat < 0 \/ p.lat > Degrees(2)
  \/ p.lng < 0 \/ p.lng > Degrees(2)

\* the ring of the call taken the other way: closed if open, open if closed
otherRing(polygon) ==
  IF polygon = SquareRing THEN closedRing(SquareRing) ELSE SquareRing

\* C17: on the square [(0,0),(0,2),(2,2),(2,0)] pointInPolygon is true for
\* (1,1) and for every point strictly inside, false for (3,3) and for every
\* point outside the bounding box, and the same for the ring with and
\* without its first vertex repeated at the end.
C17_SquareInsideOutside ==
  pc = "returned" =>
    /\ arg.point = [lat |-> Degrees(1), lng |-> Degrees(1)] => ret = TRUE
    /\ arg.point = [lat |-> Degrees(3), lng |-> Degrees(3)] => ret = FALSE
    /\ strictlyInsideSquare(arg.point) => ret = TRUE
    /\ outsideBoundingBox(arg.point) => ret = FALSE
    /\ ret = pointInPolygon(arg.point, otherRing(arg.polygon))

\* (1,1) found inside the ring given without the repeated vertex
C17_Witness ==
  /\ pc = "returned"
  /\ arg.point = [lat |-> Degrees(1), lng |-> Degrees(1)]
  /\ arg.polygon = SquareRing
  /\ ret = TRUE

\* (38.5,-120.2), (40.7,-120.95), (43.252,-126.453) times 1e5
ReferencePoints ==
  << [lat |-> 3850000, lng |-> -12020000],
     [lat |-> 4070000, lng |-> -12095000],
     [lat |-> 4325200, lng |-> -12645300] >>

\* C18: decodePolyline gives for the reference string
\* "_p~iF~ps|U_ulLnnqC_mqNvxq`@" exactly the three points (3850000,
\* -12020000), (4070000, -12095000), (4325200, -12645300), for the string
\* cut after its first or second point those points, and for the empty
\* string the empty sequence.
C18_DecodesReferencePolyline ==
  pc = "returned" =>
    /\ arg = ReferencePolyline => ret = ReferencePoints
    /\ arg = SubSeq(ReferencePolyline, 1, 18) => ret = SubSeq(ReferencePoints, 1, 2)
    /\ arg = SubSeq(ReferencePolyline, 1, 10) => ret = SubSeq(ReferencePoints, 1, 1)
    /\ arg = <<>> => ret = <<>>

\* the reference string decoded
C18_Witness ==
  /\ pc = "returned"
  /\ arg = ReferencePolyline
  /\ Len(ret) = 3
  /\ ret[3] = [lat |-> 4325200, lng |-> -12645300]

\* the points of a sequence, as a set
pointSet(points) == { points[i] : i \in 1..Len(points) }

\* every entry of the bucket is an entry of the other one
bucketWithin(bucket, other) ==
  \A i \in 1..Len(bucket) : \E j \in 1..Len(other) : bucket[i] = other[j]

hazardsWithin(hz, other) ==
  /\ bucketWithin(hz.lowBridges, other.lowBridges)
  /\ bucketWithin(hz.noTruckZones, other.noTruckZones)
  /\ bucketWithin(hz.residentialZones, other.residentialZones)

\* C19: with the data sets fixed, a route whose points are among those of
\* another has its hazards among the other's and a score not above it; and
\* for one route a greater truck height or a greater buffer removes no
\* bridge from lowBridges, leaves the zone buckets as they are and does not
\* lower the score.
C19_ScoreRouteMonotone ==
  pc = "returned" =>
    /\ \A P \in PointLists :
         pointSet(P) \subseteq pointSet(arg.points) =>
           LET part == scoreRoute(P, arg.opts)
           IN  /\ hazardsWithin(part.hazards, ret.hazards)
               /\ part.score <= ret.score
    /\ \A o \in ScoreOptions :
         (/\ o.truckHeightFt >= arg.opts.truckHeightFt
          /\ o.bridgeBufferMeters >= arg.opts.bridgeBufferMeters) =>
           LET more == scoreRoute(arg.points, o)
           IN  /\ bucketWithin(ret.hazards.lowBridges, more.hazards.lowBridges)
               /\ more.hazards.noTruckZones = ret.hazards.noTruckZones
               /\ more.hazards.residentialZones = ret.hazards.residentialZones
               /\ more.score >= ret.score

\* a route of two points through a no-truck zone that scores more than its
\* first point alone, and more again for a higher truck with a wider buffer
C19_Witness ==
  /\ pc = "returned"
  /\ Len(arg.points) = 2
  /\ arg.opts = [truckHeightFt |-> 120, bridgeBufferMeters |-> 50]
  /\ ret.hazards.noTruckZones # <<>>
  /\ scoreRoute(<<arg.points[1]>>, arg.opts).score < ret.score
  /\ ret.score < scoreRoute(arg.points,
                            [truckHeightFt |-> 136, bridgeBufferMeters |-> 120]).score

\* the route has none of the polylines the version decodes
undecodable(r) ==
  IF impl = "routing" THEN r.overview_polyline = <<>>
  ELSE \A i \in 1..Len(r.steps) : r.steps[i] = <<>>

\* the points of the polyline the version does not read
otherPath(r) ==
  IF impl = "routing" THEN densePathFromRoute(r)
  ELSE IF r.overview_polyline # <<>> THEN decodePolyline(r.overview_polyline)
       ELSE <<>>

\* C20: in an answer of status 200 a route without decodable points has
\* score 0 and empty hazards, the chosen route then has score 0, and the
\* route is the chosen one when every other candidate scores more than 0.
C20_UndecodableRouteChosen ==
  Answered200 =>
    \A k \in 1..Len(routes) :
      undecodable(routes[k]) =>
        /\ res.routes[k].score = 0
        /\ res.routes[k].hazards = NoHazards
        /\ chosen.score = 0
        /\ (\A j \in 1..Len(routes) : j # k => res.routes[j].score > 0)
             => res.chosenRouteIndex = <<k - 1>>

\* a route without decodable points, whose other polyline crosses hazards,
\* chosen over a decoded route of score above 0
C20_Witness ==
  /\ Answered200
  /\ Len(routes) = 2
  /\ \E k \in 1..2 :
       /\ undecodable(routes[k])
       /\ scoreRoute(otherPath(routes[k]), optsOf(body)).score > 0
       /\ res.routes[3 - k].score > 0
       /\ res.chosenRouteIndex = <<k - 1>>

====
